---- MODULE Spec2Model ----
(***************************************************************************)
(* cargo-switch (src/main.rs): a registry of versioned `cargo install`     *)
(* trees under $CARGO_BIN/cargo-switch-registry, and the symlink switching *)
(* that activates one of them in $CARGO_BIN.                               *)
(*                                                                         *)
(* Strings are sequences of one-character strings, so that split_once and  *)
(* the digit test of get_version_tag are computed, not assumed.            *)
(* One action is one run of `main`: Switcher::new followed by the handler  *)
(* the command line selects.                                               *)
(***************************************************************************)
EXTENDS Naturals, Sequences, FiniteSets, TLC

VARIABLES
    cargoBin,    \* "present" | "missing": does a .cargo/bin on $PATH exist
    rootExists,  \* does $CARGO_BIN/cargo-switch-registry exist
    installs,    \* registry/<name>/<version>: absent, without bin/, or bin/ with executables
    bin,         \* the entries of $CARGO_BIN, by file name
    last,        \* what the most recent run of main did and returned
    recent,      \* history: per name, the install last switched to successfully
    parse        \* the parser's input and result (ParseSpec)

vars == <<cargoBin, rootExists, installs, bin, last, recent, parse>>

----------------------------------------------------------------------------
(* Bounds and the small universes the inputs are drawn from *)

MaxNameLen == 2
MaxVersionLen == 2

Alphabet == {"a", "@", "1"}

ExeNames == {"a", "b"}

P1 == <<"p", "@", "1">>
P2 == <<"p", "@", "2">>
Q1 == <<"q", "@", "1">>
NoAt == <<"p">>
NoName == <<"@", "1">>
NoDigit == <<"p", "@", "x">>

Invalid == {NoAt, NoName, NoDigit}

Packages == {P1, P2, Q1} \cup Invalid

None == <<>>

Digits == {"0", "1", "2", "3", "4", "5", "6", "7", "8", "9"}

----------------------------------------------------------------------------
(* Spec Parser *)

\* str::split_once('@'): the position of the first '@', 0 when there is none
FirstAt(s) ==
    IF \E i \in 1..Len(s) : s[i] = "@"
    THEN CHOOSE i \in 1..Len(s) : s[i] = "@" /\ \A j \in 1..(i - 1) : s[j] # "@"
    ELSE 0

\* a plausible slip: rsplit_once, the last '@'
LastAt(s) ==
    IF \E i \in 1..Len(s) : s[i] = "@"
    THEN CHOOSE i \in 1..Len(s) : s[i] = "@" /\ \A j \in (i + 1)..Len(s) : s[j] # "@"
    ELSE 0

TagAt(package, i) ==
    IF i = 0 THEN None
    ELSE LET project_name == SubSeq(package, 1, i - 1)
             version == SubSeq(package, i + 1, Len(package))
             good_enough == Len(project_name) >= 1
                            /\ \E j \in 1..Len(version) : version[j] \in Digits
         IN  IF good_enough THEN <<project_name, version>> ELSE None

get_version_tag_rsplit(package) == TagAt(package, LastAt(package))

get_version_tag(package) == TagAt(package, FirstAt(package))

\* registry.join(name).join(version): the pair stands for the path; None is the
\* "Expected input in the form `NAME@VERSION`" error
build_target_path(package) == get_version_tag(package)

Keys == {get_version_tag(s) : s \in Packages} \ {None}

----------------------------------------------------------------------------
(* The file system *)

Absent == [kind |-> "absent", exes |-> {}]
NoBin == [kind |-> "nobin", exes |-> {}]
WithBin(X) == [kind |-> "bin", exes |-> X]

NoEntry == [kind |-> "absent", target |-> None]
File == [kind |-> "file", target |-> None]
Gone == <<"gone">>
Link(t) == [kind |-> "link", target |-> t]
ExePath(key, e) == <<key[1], key[2], e>>

TargetExists(inst, t) ==
    /\ Len(t) = 3
    /\ inst[<<t[1], t[2]>>].kind = "bin"
    /\ t[3] \in inst[<<t[1], t[2]>>].exes

\* Path::exists follows symbolic links: a link whose target is gone does not "exist"
PathExists(inst, entry) ==
    CASE entry.kind = "absent" -> FALSE
      [] entry.kind = "file" -> TRUE
      [] entry.kind = "link" -> TargetExists(inst, entry.target)

Perms(S) ==
    {s \in [1..Cardinality(S) -> S] : \A i, j \in 1..Cardinality(S) : s[i] = s[j] => i = j}

----------------------------------------------------------------------------
(* Engine: switch *)

\* a plausible slip: an existing entry is kept instead of being replaced
LinkEntryKeep(inst, b, key, e, fault) ==
    IF fault = "entry" THEN [bin |-> b, result |-> "entry_error"]
    ELSE IF PathExists(inst, b[e]) THEN [bin |-> b, result |-> "ok"]
    ELSE IF b[e].kind # "absent" \/ fault = "symlink"
         THEN [bin |-> b, result |-> "symlink_failed"]
         ELSE [bin |-> [b EXCEPT ![e] = Link(ExePath(key, e))], result |-> "ok"]

\* One iteration of the loop over read_dir(project_bin), for the entry named e.
\* fault is the I/O error the run meets at this entry, if any:
\*   "entry"   the directory iterator yields Err          (maybe_entry?)
\*   "remove"  fs::remove_file fails                      (when it is called)
\*   "symlink" unix::fs::symlink fails for another reason than the name being taken
LinkEntry(inst, b, key, e, fault) ==
    IF fault = "entry" THEN [bin |-> b, result |-> "entry_error"]
    ELSE LET exists == PathExists(inst, b[e])
         IN  IF exists /\ fault = "remove"
             THEN [bin |-> b, result |-> "remove_failed"]
             ELSE LET b1 == IF exists THEN [b EXCEPT ![e] = NoEntry] ELSE b
                  IN  IF b1[e].kind # "absent" \/ fault = "symlink"
                      THEN [bin |-> b1, result |-> "symlink_failed"]
                      ELSE [bin |-> [b1 EXCEPT ![e] = Link(ExePath(key, e))],
                            result |-> "ok"]

FaultAt(fault, i) == IF fault.at = i THEN fault.kind ELSE "none"

\* a plausible slip: errors are accumulated and the loop goes on
RECURSIVE LinkEntriesGoOn(_, _, _, _, _, _)
LinkEntriesGoOn(inst, b, key, order, i, fault) ==
    IF i > Len(order) THEN [bin |-> b, result |-> "ok", failedAt |-> 0]
    ELSE LET step == LinkEntry(inst, b, key, order[i], FaultAt(fault, i))
             rest == LinkEntriesGoOn(inst, step.bin, key, order, i + 1, fault)
         IN  IF step.result = "ok" THEN rest
             ELSE [bin |-> rest.bin, result |-> step.result, failedAt |-> i]

\* for maybe_entry in read_dir(project_bin)? { ... }: `?` returns at the first error
RECURSIVE LinkEntries(_, _, _, _, _, _)
LinkEntries(inst, b, key, order, i, fault) ==
    IF i > Len(order) THEN [bin |-> b, result |-> "ok", failedAt |-> 0]
    ELSE LET step == LinkEntry(inst, b, key, order[i], FaultAt(fault, i))
         IN  IF step.result = "ok"
             THEN LinkEntries(inst, step.bin, key, order, i + 1, fault)
             ELSE [bin |-> step.bin, result |-> step.result, failedAt |-> i]

Untouched(b, result) == [bin |-> b, result |-> result, failedAt |-> 0]

\* a plausible slip: the existence checks are dropped
switch_package_nocheck(inst, b, package, order, fault) ==
    LET switch_registry == build_target_path(package)
    IN  IF switch_registry = None THEN Untouched(b, "invalid")
        ELSE LinkEntries(inst, b, switch_registry, order, 1, fault)

\* a plausible slip: the links of the package's other versions are cleared first
switch_package_deactivate(inst, b, package, order, fault) ==
    LET switch_registry == build_target_path(package)
        cleared == [e \in DOMAIN b |->
                       IF b[e].kind = "link" /\ Len(b[e].target) = 3
                          /\ b[e].target[1] = switch_registry[1]
                       THEN NoEntry ELSE b[e]]
    IN  IF switch_registry = None THEN Untouched(b, "invalid")
        ELSE IF inst[switch_registry].kind = "absent" THEN Untouched(b, "not_installed")
        ELSE IF inst[switch_registry].kind # "bin" \/ fault.kind = "readdir"
             THEN Untouched(b, "bin_unreadable")
             ELSE LinkEntries(inst, cleared, switch_registry, order, 1, fault)

\* Switcher::switch_package. order is the order in which read_dir yields the
\* entries of the install's bin/; the fault "readdir" is read_dir itself failing
\* on a bin/ that is there (it is a file, or may not be read).
\* The second ensure! (line 161) tests switch_registry again, not project_bin,
\* so it can never fail; a missing bin/ is met by read_dir(project_bin)?.
switch_package(inst, b, package, order, fault) ==
    LET switch_registry == build_target_path(package)
    IN  IF switch_registry = None THEN Untouched(b, "invalid")
        ELSE IF inst[switch_registry].kind = "absent" THEN Untouched(b, "not_installed")
        ELSE IF inst[switch_registry].kind = "absent" THEN Untouched(b, "not_installed")
        ELSE IF inst[switch_registry].kind # "bin" \/ fault.kind = "readdir"
             THEN Untouched(b, "bin_unreadable")
             ELSE LinkEntries(inst, b, switch_registry, order, 1, fault)

\* the orders in which read_dir can yield the entries of the install's bin/
Orders(inst, package) ==
    LET key == build_target_path(package)
    IN  IF key = None THEN {<<>>} ELSE Perms(inst[key].exes)

Faults(n) ==
    {[at |-> 0, kind |-> "none"], [at |-> 0, kind |-> "readdir"]}
    \cup {[at |-> i, kind |-> k] : i \in 1..n, k \in {"entry", "remove", "symlink"}}

----------------------------------------------------------------------------
(* Engine: list *)

PackageDirs(inst) == {k[1] : k \in {x \in Keys : inst[x].kind # "absent"}}

VersionDirs(inst, name) ==
    {k[2] : k \in {x \in Keys : x[1] = name /\ inst[x].kind # "absent"}}

\* a plausible slip: the loop over the versions stops one entry early
RECURSIVE ListVersionsShort(_, _, _, _)
ListVersionsShort(printed, vs, j, failAt) ==
    IF j >= Len(vs) THEN [printed |-> printed, result |-> "ok"]
    ELSE IF j = failAt THEN [printed |-> printed, result |-> "io_error"]
    ELSE ListVersionsShort(Append(printed, <<"version", vs[j]>>), vs, j + 1, failAt)

\* for maybe_entry in inner_readdir { let entry = maybe_entry?; println!("  - {}") }
\* failAt is the position at which the iterator yields Err (0: nowhere)
RECURSIVE ListVersions(_, _, _, _)
ListVersions(printed, vs, j, failAt) ==
    IF j > Len(vs) THEN [printed |-> printed, result |-> "ok"]
    ELSE IF j = failAt THEN [printed |-> printed, result |-> "io_error"]
    ELSE ListVersions(Append(printed, <<"version", vs[j]>>), vs, j + 1, failAt)

\* The loop of Switcher::list_packages over read_dir(&self.registry).
\* order: the order of the entries of the Registry Root; vorder[name]: the order
\* of the entries of registry/<name>. fault, at the fault.at-th root entry:
\*   "entry"    the root iterator yields Err              (logged, continue)
\*   "readdir"  fs::read_dir(&entry_path)? fails          (e.g. the entry is a file)
\*   "version"  the inner iterator yields Err at fault.ver (maybe_entry?)
RECURSIVE ListEntries(_, _, _, _, _, _)
ListEntries(printed, logged, order, vorder, i, fault) ==
    IF i > Len(order) THEN [printed |-> printed, logged |-> logged, result |-> "ok"]
    ELSE LET f == IF fault.at = i THEN fault.kind ELSE "none"
             named == Append(printed, <<"package", order[i]>>)
             inner == ListVersions(named, vorder[order[i]], 1,
                                   IF f = "version" THEN fault.ver ELSE 0)
         IN  IF f = "entry"
             THEN ListEntries(printed, logged + 1, order, vorder, i + 1, fault)
             ELSE IF f = "readdir"
             THEN [printed |-> named, logged |-> logged, result |-> "io_error"]
             ELSE IF inner.result # "ok"
             THEN [printed |-> inner.printed, logged |-> logged, result |-> "io_error"]
             ELSE ListEntries(inner.printed, logged, order, vorder, i + 1, fault)

list_packages(order, vorder, fault) == ListEntries(<<>>, 0, order, vorder, 1, fault)

VersionOrders(inst) ==
    {f \in [PackageDirs(inst) -> UNION {Perms(VersionDirs(inst, n)) : n \in PackageDirs(inst)}] :
        \A n \in PackageDirs(inst) : f[n] \in Perms(VersionDirs(inst, n))}

NoFault == [at |-> 0, kind |-> "none", ver |-> 0]

ListFaults(order, vorder) ==
    {NoFault}
    \cup {[at |-> i, kind |-> k, ver |-> 0] : i \in 1..Len(order), k \in {"entry", "readdir"}}
    \cup UNION {{[at |-> i, kind |-> "version", ver |-> j] : j \in 1..Len(vorder[order[i]])} :
                    i \in 1..Len(order)}

----------------------------------------------------------------------------
(* Engine: install *)

\* The child `cargo install <package> --root <target_path>`, an external
\* program: on success the install has a bin/ (an existing one is left as it
\* is, cargo reports it as already installed), on failure the registry is as
\* before, or the root directory was created without a bin/.
CargoInstall(inst, key, child) ==
    IF child.ok
    THEN IF inst[key].kind = "bin" THEN inst ELSE [inst EXCEPT ![key] = WithBin(child.built)]
    ELSE IF child.partial /\ inst[key].kind = "absent"
         THEN [inst EXCEPT ![key] = NoBin]
         ELSE inst

NoChild == [ok |-> FALSE, built |-> {}, partial |-> FALSE]

\* the runs of the child that differ in their effect on the registry: what it
\* builds matters only when there is no bin/ yet, what a failure leaves behind
\* only when the install's directory is absent
Children(inst, package, builds) ==
    LET key == build_target_path(package)
    IN  IF key = None THEN {NoChild}
        ELSE {NoChild}
             \cup {[ok |-> FALSE, built |-> {}, partial |-> TRUE] :
                      x \in {k \in {key} : inst[k].kind = "absent"}}
             \cup {[ok |-> TRUE, built |-> X, partial |-> FALSE] :
                      X \in IF inst[key].kind = "bin" THEN {{}} ELSE builds}

AfterChild(inst, package, child) ==
    IF build_target_path(package) = None THEN inst
    ELSE CargoInstall(inst, build_target_path(package), child)

Installed(inst, sw, spawned, switched) ==
    [installs |-> inst, bin |-> sw.bin, result |-> sw.result, failedAt |-> sw.failedAt,
     spawned |-> spawned, switched |-> switched]

\* a plausible slip: the child is spawned before the specifier is validated
install_package_spawn_first(inst, b, package, child, order, fault) ==
    IF build_target_path(package) = None
    THEN Installed(inst, Untouched(b, "invalid"), TRUE, FALSE)
    ELSE Installed(AfterChild(inst, package, child),
                   switch_package(AfterChild(inst, package, child), b, package,
                                  order, fault),
                   TRUE, TRUE)

\* a plausible slip: a failed child ends the operation
install_package_abort(inst, b, package, child, order, fault) ==
    IF build_target_path(package) = None
    THEN Installed(inst, Untouched(b, "invalid"), FALSE, FALSE)
    ELSE IF ~child.ok
    THEN Installed(AfterChild(inst, package, child), Untouched(b, "install_failed"),
                   TRUE, FALSE)
    ELSE Installed(AfterChild(inst, package, child),
                   switch_package(AfterChild(inst, package, child), b, package,
                                  order, fault),
                   TRUE, TRUE)

\* Switcher::install_package: validate, run the child, report its status, switch
install_package(inst, b, package, child, order, fault) ==
    IF build_target_path(package) = None
    THEN Installed(inst, Untouched(b, "invalid"), FALSE, FALSE)
    ELSE Installed(AfterChild(inst, package, child),
                   switch_package(AfterChild(inst, package, child), b, package,
                                  order, fault),
                   TRUE, TRUE)

----------------------------------------------------------------------------
(* main: one action per command line *)

\* what a run of main did: the command, its argument, the Result it returned
\* and the observations the properties are stated on
Ran(op, package, result) ==
    [op |-> op, package |-> package, result |-> result, failedAt |-> 0,
     order |-> <<>>, before |-> bin, instBefore |-> installs,
     createdRoot |-> ~rootExists /\ result # "config",
     spawned |-> FALSE, childOk |-> FALSE, switched |-> FALSE,
     printed |-> <<>>, logged |-> 0, fault |-> "none"]

\* History of the switches: a successful switch to key makes key the recent
\* install of every name it linked; a switch that failed inside its loop leaves
\* the names it was to link without one.
Switched(r, package, order) ==
    IF r.result = "ok"
    THEN [e \in ExeNames |->
             IF \E i \in 1..Len(order) : order[i] = e
             THEN build_target_path(package) ELSE recent[e]]
    ELSE IF r.failedAt > 0
    THEN [e \in ExeNames |->
             IF \E i \in 1..Len(order) : order[i] = e THEN None ELSE recent[e]]
    ELSE recent

\* Switcher::new fails: no .cargo/bin on $PATH, or it does not exist
ConfigError(op, package) ==
    /\ cargoBin = "missing"
    /\ last' = Ran(op, package, "config")
    /\ UNCHANGED <<cargoBin, rootExists, installs, bin, recent, parse>>

\* cargo-switch NAME@VERSION
Switch(package) ==
    \/ ConfigError("switch", package)
    \/ /\ cargoBin = "present"
       /\ \E order \in Orders(installs, package) :
          \E fault \in Faults(Len(order)) :
             \E r \in {switch_package(installs, bin, package, order, fault)} :
                 /\ bin' = r.bin
                 /\ recent' = Switched(r, package, order)
                 /\ last' = [Ran("switch", package, r.result) EXCEPT
                                !.failedAt = r.failedAt, !.order = order,
                                !.switched = TRUE, !.fault = fault.kind]
       /\ rootExists' = TRUE
       /\ UNCHANGED <<cargoBin, installs, parse>>

\* cargo-switch install PACKAGE; builds: the sets of executables the child may build
Install(package, builds) ==
    \/ ConfigError("install", package)
    \/ /\ cargoBin = "present"
       /\ \E child \in Children(installs, package, builds) :
          \E order \in Orders(AfterChild(installs, package, child), package) :
          \E fault \in Faults(Len(order)) :
             \E r \in {install_package(installs, bin, package, child, order, fault)} :
                 /\ installs' = r.installs
                 /\ bin' = r.bin
                 /\ recent' = Switched(r, package, order)
                 /\ last' = [Ran("install", package, r.result) EXCEPT
                                !.failedAt = r.failedAt, !.order = order,
                                !.spawned = r.spawned, !.childOk = r.spawned /\ child.ok,
                                !.switched = r.switched, !.fault = fault.kind]
       /\ rootExists' = TRUE
       /\ UNCHANGED <<cargoBin, parse>>

\* cargo-switch list
List ==
    \/ ConfigError("list", None)
    \/ /\ cargoBin = "present"
       /\ \E order \in Perms(PackageDirs(installs)), vorder \in VersionOrders(installs) :
          \E fault \in ListFaults(order, vorder) :
             \E r \in {list_packages(order, vorder, fault)} :
                 last' = [Ran("list", None, r.result) EXCEPT
                             !.printed = r.printed, !.logged = r.logged,
                             !.fault = fault.kind]
       /\ rootExists' = TRUE
       /\ UNCHANGED <<cargoBin, installs, bin, recent, parse>>

\* cargo-switch, without a command or a package version
Usage ==
    \/ ConfigError("usage", None)
    \/ /\ cargoBin = "present"
       /\ last' = Ran("usage", None, "ok")
       /\ rootExists' = TRUE
       /\ UNCHANGED <<cargoBin, installs, bin, recent, parse>>

Idle == [name |-> <<>>, version |-> <<>>, done |-> FALSE, result |-> None]

NotRun ==
    [op |-> "none", package |-> None, result |-> "ok", failedAt |-> 0,
     order |-> <<>>, before |-> [e \in ExeNames |-> NoEntry],
     instBefore |-> [k \in Keys |-> Absent], createdRoot |-> FALSE,
     spawned |-> FALSE, childOk |-> FALSE, switched |-> FALSE,
     printed |-> <<>>, logged |-> 0, fault |-> "none"]

\* Before the first run: the registry does not exist yet; $CARGO_BIN is the
\* user's directory and may hold, under a name, nothing, a regular file, or a
\* symbolic link whose target no longer exists.
Init ==
    /\ cargoBin \in {"present", "missing"}
    /\ rootExists = FALSE
    /\ installs = [k \in Keys |-> Absent]
    /\ bin \in [ExeNames -> {NoEntry, File, Link(Gone)}]
    /\ last = NotRun
    /\ recent = [e \in ExeNames |-> None]
    /\ parse = Idle

\* Two versions of one package, every set of executables: switching
Next ==
    \/ \E package \in {P1, P2} \cup Invalid : Switch(package)
    \/ \E package \in {P1, P2} \cup Invalid : Install(package, {{"a"}, {"a", "b"}})
    \/ Usage

Spec == Init /\ [][Next]_vars

\* Two packages, one of them in two versions, one executable each: listing
ListNext ==
    \/ \E package \in {P1, P2, Q1} : Install(package, {{"a"}})
    \/ List

ListSpec == Init /\ [][ListNext]_vars

----------------------------------------------------------------------------
(* The parser alone, on every name and version within the bounds *)

Strings(n) == UNION {[1..k -> Alphabet] : k \in 0..n}

ParseInit ==
    /\ cargoBin = "present"
    /\ rootExists = FALSE
    /\ installs = [k \in Keys |-> Absent]
    /\ bin = [e \in ExeNames |-> NoEntry]
    /\ last = NotRun
    /\ recent = [e \in ExeNames |-> None]
    /\ parse \in {[name |-> n, version |-> v, done |-> FALSE, result |-> None] :
                    n \in Strings(MaxNameLen), v \in Strings(MaxVersionLen)}

Parse ==
    /\ ~parse.done
    /\ parse' = [parse EXCEPT !.done = TRUE,
                              !.result = get_version_tag(parse.name \o <<"@">> \o parse.version)]
    /\ UNCHANGED <<cargoBin, rootExists, installs, bin, last, recent>>

ParseNext == Parse

ParseSpec == ParseInit /\ [][ParseNext]_vars

----------------------------------------------------------------------------
(* Properties *)

LastKey == get_version_tag(last.package)

KeyP1 == <<(<<"p">>), (<<"1">>)>>
KeyP2 == <<(<<"p">>), (<<"2">>)>>
KeyQ1 == <<(<<"q">>), (<<"1">>)>>

HasDigit(v) == \E j \in 1..Len(v) : v[j] \in Digits
HasAt(n) == \E j \in 1..Len(n) : n[j] = "@"

\* the run got as far as calling switch_package with a valid, located setup
SwitchRan == last.op \in {"switch", "install"} /\ last.switched

LoopFailed == SwitchRan /\ last.failedAt > 0

\* C1: after a successful switch of name@version, every executable e of that
\* install's bin/ is, in the Bin Directory, a symlink that resolves to
\* registry/name/version/bin/e; a link that pointed to another version's
\* executable before now points to the new version's.
C1_SwitchCorrect ==
    (SwitchRan /\ last.result = "ok") =>
        \A e \in installs[LastKey].exes :
            /\ bin[e] = Link(ExePath(LastKey, e))
            /\ TargetExists(installs, bin[e].target)
            /\ (last.before[e].kind = "link" /\ last.before[e].target # ExePath(LastKey, e))
                   => bin[e].target # last.before[e].target

C1_Witness ==
    /\ last.op = "switch" /\ last.result = "ok" /\ last.package = P2
    /\ installs[KeyP2].exes = {"a", "b"}
    /\ last.before["a"] = Link(ExePath(KeyP1, "a"))
    /\ last.before["b"] = File
    /\ bin["a"] = Link(ExePath(KeyP2, "a"))

\* C2, as stated: for every non-empty name and every version with an ASCII
\* digit, parsing name@version yields exactly (name, version).
C2_AsStated ==
    (parse.done /\ Len(parse.name) >= 1 /\ HasDigit(parse.version))
        => parse.result = <<parse.name, parse.version>>

\* C2, amended: for every non-empty name without '@' and every version with an
\* ASCII digit, parsing name@version yields exactly (name, version); and every
\* successful parse cut its input at the first '@' (the name has no '@', and
\* name, '@', version make up the input).
C2_ParseRoundTrip ==
    /\ (parse.done /\ Len(parse.name) >= 1 /\ ~HasAt(parse.name) /\ HasDigit(parse.version))
           => parse.result = <<parse.name, parse.version>>
    /\ (parse.done /\ parse.result # None)
           => /\ ~HasAt(parse.result[1])
              /\ parse.result[1] \o <<"@">> \o parse.result[2]
                     = parse.name \o <<"@">> \o parse.version

C2_Witness ==
    /\ parse.done
    /\ parse.name = <<"a">> /\ parse.version = <<"@", "1">>
    /\ parse.result = <<parse.name, parse.version>>

InvalidRun == last.op \in {"switch", "install"} /\ LastKey = None

\* C3, as stated: a switch or install with an invalid specifier fails with a
\* validation error before any file system or subprocess action: no directory
\* is created (the Registry Root included), no symlink changes, no child runs.
C3_AsStated ==
    (InvalidRun /\ cargoBin = "present") =>
        /\ last.result = "invalid"
        /\ ~last.createdRoot
        /\ installs = last.instBefore
        /\ bin = last.before
        /\ ~last.spawned

\* C3, amended: a switch or install with an invalid specifier fails (with the
\* validation error when the Bin Directory was located, with the configuration
\* error otherwise), creates no directory under the Registry Root, changes no
\* symlink and runs no child; the Registry Root itself is created before the
\* specifier is looked at, when the Bin Directory was located.
C3_InvalidRejected ==
    InvalidRun =>
        /\ last.result = (IF cargoBin = "present" THEN "invalid" ELSE "config")
        /\ installs = last.instBefore
        /\ bin = last.before
        /\ ~last.spawned
        /\ cargoBin = "present" => rootExists
        /\ last.createdRoot => last.result = "invalid"

C3_Witness ==
    /\ last.op = "install" /\ last.package = NoDigit
    /\ last.result = "invalid" /\ last.createdRoot /\ rootExists
    /\ ~last.spawned

\* C4: a switch of a valid specifier fails and leaves every entry of the Bin
\* Directory as it was when registry/name/version does not exist, and when it
\* exists but its bin/ does not exist or cannot be read.
C4_NotInstalled ==
    (last.op = "switch" /\ LastKey # None /\ cargoBin = "present") =>
        /\ installs[LastKey].kind = "absent"
               => (last.result = "not_installed" /\ bin = last.before)
        /\ (installs[LastKey].kind = "nobin"
            \/ (installs[LastKey].kind = "bin" /\ last.fault = "readdir"))
               => (last.result = "bin_unreadable" /\ bin = last.before)

C4_Witness ==
    /\ last.op = "switch" /\ last.package = P2
    /\ installs[KeyP2].kind = "nobin"
    /\ last.result = "bin_unreadable"
    /\ bin["a"] = Link(ExePath(KeyP1, "a"))

ChildFailed == last.op = "install" /\ last.spawned /\ ~last.childOk

\* C5, as stated: when the child fails, install still switches, the switch
\* fails as not installed, and no symlink is changed.
C5_AsStated ==
    ChildFailed =>
        /\ last.switched
        /\ last.result \in {"not_installed", "bin_unreadable"}
        /\ bin = last.before

\* C5, amended: when the child fails, install still switches; the switch fails
\* as not installed and no symlink is changed when the install has no bin/
\* after the child; an install that was in the registry before is left as it
\* was and switched to like in any switch.
C5_FailedChildStillSwitches ==
    ChildFailed =>
        /\ last.switched
        /\ installs[LastKey].kind # "bin"
               => /\ last.result = (IF installs[LastKey].kind = "absent"
                                    THEN "not_installed" ELSE "bin_unreadable")
                  /\ bin = last.before
        /\ installs[LastKey].kind = "bin"
               => /\ installs = last.instBefore
                  /\ last.result = "ok"
                         => \A e \in installs[LastKey].exes :
                                bin[e] = Link(ExePath(LastKey, e))

C5_Witness ==
    /\ ChildFailed /\ last.switched /\ last.package = P2
    /\ installs[KeyP2].kind = "absent"
    /\ last.result = "not_installed"
    /\ bin["a"] = Link(ExePath(KeyP1, "a"))

\* the lines of the listing
PackageLines(name) ==
    {i \in 1..Len(last.printed) : last.printed[i] = <<"package", name>>}

\* the version lines printed under the package line i, up to the next package line
VersionLines(i) ==
    {j \in (i + 1)..Len(last.printed) :
        \A m \in (i + 1)..j : last.printed[m][1] = "version"}

ListedFully(name) ==
    /\ Cardinality(PackageLines(name)) = 1
    /\ \A i \in PackageLines(name) :
          /\ {last.printed[j][2] : j \in VersionLines(i)} = VersionDirs(installs, name)
          /\ Cardinality(VersionLines(i)) = Cardinality(VersionDirs(installs, name))

ListRan == last.op = "list" /\ cargoBin = "present"

\* C6: when every entry of the Registry Root is a readable package directory
\* of version directories, list succeeds, prints every package name exactly
\* once, under each name exactly its versions and nothing else, and changes
\* nothing on disk.
C6_ListComplete ==
    (ListRan /\ last.fault = "none") =>
        /\ last.result = "ok"
        /\ \A name \in PackageDirs(installs) : ListedFully(name)
        /\ \A i \in 1..Len(last.printed) :
              last.printed[i][1] = "package" => last.printed[i][2] \in PackageDirs(installs)
        /\ last.printed # <<>> => last.printed[1][1] = "package"
        /\ installs = last.instBefore
        /\ bin = last.before
        /\ PackageDirs(installs) # {} => ~last.createdRoot

C6_Witness ==
    /\ ListRan /\ last.fault = "none" /\ last.result = "ok"
    /\ PackageDirs(installs) = {<<"p">>, <<"q">>}
    /\ VersionDirs(installs, <<"p">>) = {<<"1">>, <<"2">>}
    /\ Len(last.printed) = 5

\* C7: in a switch, an object that exists at BinDirectory/<entry> (a symlink of
\* an earlier version, its target there or not, or a file) is removed before
\* the symlink is created: when the creation of a symlink fails, the name was
\* not taken.
C7_ExistingRemovedFirst ==
    (LoopFailed /\ last.result = "symlink_failed")
        => bin[last.order[last.failedAt]].kind = "absent"

\* C8: when removing or creating the symlink fails for the k-th entry, switch
\* returns that error, the entries before k are symlinks to the new version,
\* the entries after k and every other name are as they were before.
C8_NoRollback ==
    (LoopFailed /\ last.result \in {"remove_failed", "symlink_failed"}) =>
        /\ last.failedAt \in 1..Len(last.order)
        /\ \A i \in 1..(last.failedAt - 1) :
              bin[last.order[i]] = Link(ExePath(LastKey, last.order[i]))
        /\ \A i \in (last.failedAt + 1)..Len(last.order) :
              bin[last.order[i]] = last.before[last.order[i]]
        /\ \A e \in ExeNames :
              (\A i \in 1..Len(last.order) : last.order[i] # e) => bin[e] = last.before[e]

C8_Witness ==
    /\ LoopFailed /\ last.result = "remove_failed" /\ last.package = P2
    /\ last.failedAt = 1 /\ Len(last.order) = 2
    /\ last.before[last.order[2]] = Link(ExePath(KeyP1, last.order[2]))
    /\ bin[last.order[2]] = last.before[last.order[2]]

\* C9: every read error of a single entry during list (an entry of the
\* Registry Root, a package entry that cannot be read as a directory, a version
\* entry) is logged and skipped, and list goes on and succeeds, printing the
\* other packages.
C9_ListBestEffort ==
    (ListRan /\ last.fault # "none") =>
        /\ last.result = "ok"
        /\ last.logged = 1
        /\ Cardinality({name \in PackageDirs(installs) : ListedFully(name)})
               >= Cardinality(PackageDirs(installs)) - 1

\* C10: a successful switch changes only the Bin Directory entries named in
\* the install's bin/ and nothing under the Registry Root; so every name points
\* into the install most recently switched to successfully among those that
\* ship it, and a name the new version does not ship keeps the older version.
C10_SwitchFrame ==
    /\ (last.op = "switch" /\ last.result = "ok") =>
           /\ \A e \in ExeNames \ installs[LastKey].exes : bin[e] = last.before[e]
           /\ installs = last.instBefore
    /\ \A e \in ExeNames :
           recent[e] # None => bin[e] = Link(ExePath(recent[e], e))

C10_Witness ==
    /\ last.op = "switch" /\ last.result = "ok" /\ last.package = P2
    /\ installs[KeyP2].exes = {"a"}
    /\ recent["a"] = KeyP2 /\ recent["b"] = KeyP1
    /\ bin["a"] = Link(ExePath(KeyP2, "a"))
    /\ bin["b"] = Link(ExePath(KeyP1, "b"))

====
